---- MODULE Spec2Model ----
(***************************************************************************)
(* Model of networkTree.cc: the recursive construction of a balanced tree  *)
(* of nodes under the client node, the subnet address given to every link, *)
(* the echo servers installed on the bottom nodes and the echo clients     *)
(* installed on the root with staggered start times.                       *)
(*                                                                         *)
(* The recursion of networkTree is an explicit stack of frames; one action *)
(* per straight-line piece of the function.  Times are in microseconds.    *)
(***************************************************************************)
EXTENDS Integers, Sequences, FiniteSets, TLC

\* ---------------------------------------------------------------- bounds
MaxB == 3            \* largest ordinary branching factor tried
MaxD == 3            \* largest ordinary depth tried

\* ------------------------------------------------------ program constants
InitialBranch == 1           \* static int branch = 1;
BaseOffset == 9              \* "%d.%d.%d.0", 9 + level, ...
FieldMax == 255              \* one field of the dotted form a.b.c.0 / 255.255.255.0
ServerPort == 9              \* installUdpEchoServers(&leaves, 9, 1.0, 2000.0)
ServerStart == 1000000       \* 1.0 s
ServerEnd == 2000000000      \* 2000.0 s
ClientPort == 9              \* installUdpEchoClient(client, 9, ..., 2.0, 2000.0)
ClientStart == 2000000       \* 2.0 s
ClientEnd == 2000000000      \* 2000.0 s
Delay == 10000               \* int delay = 10000;
MaxPackets == 1              \* "MaxPackets", UintegerValue (1)
PacketSize == 1024           \* "PacketSize", UintegerValue (1 << 10)
MicrosPerSecond == 1000000   \* Seconds (...) expressed in microseconds
IntMax == 2147483647         \* largest int; a negative int read as uint32_t is above it

VARIABLES
  numLeaves,      \* second argument of the outermost networkTree call
  depth,          \* fourth argument (level) of the outermost call
  branch,         \* static int branch
  stack,          \* active networkTree invocations, innermost last
  nodes,          \* nodes created by leaves.Create, in creation order (the client is node 0)
  links,          \* csma links, in creation order
  ipInterfaces,   \* main's Ipv4InterfaceContainer
  clients,        \* UdpEchoClient applications added to the client node
  pc,             \* position of main
  calls,          \* number of networkTree invocations entered so far
  run,            \* which execution of the program this is (1 or 2)
  prev            \* what the previous execution produced

vars == <<numLeaves, depth, branch, stack, nodes, links, ipInterfaces, clients, pc, calls, run, prev>>

\* ------------------------------------------------------------- arithmetic
RECURSIVE Pow(_, _)
Pow(b, e) == IF e <= 0 THEN 1 ELSE b * Pow(b, e - 1)

\* b^lo + ... + b^hi
RECURSIVE GeoSum(_, _, _)
GeoSum(b, lo, hi) == IF lo > hi THEN 0 ELSE Pow(b, lo) + GeoSum(b, lo + 1, hi)

MaxOf(a, b) == IF a >= b THEN a ELSE b

\* Number of nodes the process can hold before an allocation fails.  Any value
\* below 2^31 gives the same behaviour; it is kept above every tree tried here.
NodeCapacity == MaxOf(GeoSum(MaxB + 1, 1, MaxD + 1), FieldMax + 1) + 1

\* The (numLeaves, level) pairs main may pass: the ordinary ones, the negative
\* ones, and one whose width leaves the range of an address field.
Params ==
  {<<b, d>> : b \in -1..MaxB, d \in -1..MaxD} \cup {<<FieldMax + 1, 1>>}

\* ------------------------------------------------------------ networkTree
\* if (level > 0)
LevelGeZero(level) == level >= 0
LevelPositive(level) == level > 0

\* leaves.Create(numLeaves): the int argument converted to uint32_t.  A negative
\* value becomes n + 2^32 > IntMax, which is all that is used of it.
AsUint32OneMore(n) == IF n >= 0 THEN n + 1 ELSE IntMax
AsUint32(n) == IF n >= 0 THEN n ELSE IntMax

\* sprintf (buffer, "%d.%d.%d.0", 9 + level, branch, netDev + 1)
SubnetAddressSameIndex(level, br, netDev) == <<BaseOffset + level, br, 1>>
SubnetAddress(level, br, netDev) == <<BaseOffset + level, br, netDev + 1>>

\* address.Assign( netC.at(netDev) ): one interface per device of the link, in the
\* order of NodeContainer( parent, leaves.Get(leaf) )
AssignInterfaces(subnet, link) ==
  << [subnet |-> subnet, node |-> link.parent, side |-> "parent"],
     [subnet |-> subnet, node |-> link.child, side |-> "child"] >>

\* if (level == 1) ipInterfaces->Add(tempContainer);
AddChildOnly(level, list, tempContainer) ==
  IF level = 1 THEN Append(list, tempContainer[2]) ELSE list
AddAtEveryLevel(level, list, tempContainer) ==
  IF level >= 1 THEN list \o tempContainer ELSE list
AddInterfaces(level, list, tempContainer) ==
  IF level = 1 THEN list \o tempContainer ELSE list

\* if (level == 1) installUdpEchoServers(...)
IsLevelAtLeastOne(level) == level >= 1
IsBottomLevel(level) == level = 1

\* int leaf = netDev; networkTree(leaves.Get(leaf), numLeaves, ipInterfaces, level - 1);
RecurseLeafReversed(leaves, netDev) == leaves[Len(leaves) - netDev]
RecurseLeaf(leaves, netDev) == leaves[netDev + 1]
NextLevelSame(level) == level
NextLevel(level) == level - 1

\* branch++
BranchKept(br) == br
NextBranchByTwo(br) == br + 2
NextBranch(br) == br + 1

Frame(parent, level) ==
  [parent |-> parent, level |-> level, leaves |-> <<>>, netC |-> <<>>,
   netDev |-> 0, pc |-> "entry"]

Top == stack[Len(stack)]
Pop == SubSeq(stack, 1, Len(stack) - 1)
SetTop(f) == [stack EXCEPT ![Len(stack)] = f]
Building == pc = "build" /\ Len(stack) > 0

NoOutput == [links |-> <<>>, starts |-> <<>>, pc |-> "none"]

Init ==
  /\ \E p \in Params : numLeaves = p[1] /\ depth = p[2]
  /\ branch = InitialBranch
  /\ stack = <<>>
  /\ nodes = <<>>
  /\ links = <<>>
  /\ ipInterfaces = <<>>
  /\ clients = <<>>
  /\ pc = "main"
  /\ calls = 0
  /\ run = 1
  /\ prev = NoOutput

\* main: networkTree(client, 3, &ipInterfaces, 2), for any pair of arguments
CallNetworkTree ==
  /\ pc = "main"
  /\ pc' = "build"
  /\ stack' = <<Frame(0, depth)>>
  /\ calls' = calls + 1
  /\ UNCHANGED <<numLeaves, depth, branch, nodes, links, ipInterfaces, clients, run, prev>>

\* level > 0 is false: the function returns without doing anything
ReturnBase ==
  /\ Building
  /\ Top.pc = "entry"
  /\ ~LevelPositive(Top.level)
  /\ stack' = Pop
  /\ UNCHANGED <<numLeaves, depth, branch, nodes, links, ipInterfaces, clients, pc, run, prev, calls>>

\* NodeContainer leaves; leaves.Create(numLeaves);
CreateLeaves ==
  /\ Building
  /\ Top.pc = "entry"
  /\ LevelPositive(Top.level)
  /\ LET n == AsUint32(numLeaves)
         free == NodeCapacity - Len(nodes)
         made == IF n <= free THEN n ELSE free
         fresh == [i \in 1..made |-> [parent |-> Top.parent, level |-> Top.level, servers |-> <<>>]]
     IN /\ nodes' = nodes \o fresh
        /\ IF n <= free
             THEN /\ stack' = SetTop([Top EXCEPT !.leaves = [i \in 1..n |-> Len(nodes) + i],
                                                !.pc = "connect"])
                  /\ pc' = pc
             ELSE \* allocation fails inside Create: the process ends
                  /\ stack' = stack
                  /\ pc' = "aborted"
  /\ UNCHANGED <<numLeaves, depth, branch, links, ipInterfaces, clients, run, prev, calls>>

\* for (leaf ...) netC.push_back( csma.Install( NodeContainer( parent, leaves.Get(leaf) ) ) );
ConnectLeaves ==
  /\ Building
  /\ Top.pc = "connect"
  /\ LET n == Len(Top.leaves)
         fresh == [i \in 1..n |-> [parent |-> Top.parent, child |-> Top.leaves[i],
                                    level |-> Top.level, index |-> i - 1,
                                    branch |-> 0, addr |-> <<>>]]
     IN /\ links' = links \o fresh
        /\ stack' = SetTop([Top EXCEPT !.netC = [i \in 1..n |-> Len(links) + i],
                                      !.pc = "stack"])
  /\ UNCHANGED <<numLeaves, depth, branch, nodes, ipInterfaces, clients, pc, run, prev, calls>>

\* installUdpEchoServers: one UdpEchoServer per node of the container
installUdpEchoServers(ns, leaves, port, start, end) ==
  [i \in 1..Len(ns) |->
     IF \E k \in 1..Len(leaves) : leaves[k] = i
       THEN [ns[i] EXCEPT !.servers = Append(@, [port |-> port, start |-> start, stop |-> end])]
       ELSE ns[i]]

\* stack.Install (leaves); if (level == 1) installUdpEchoServers(&leaves, 9, 1.0, 2000.0);
InstallStack ==
  /\ Building
  /\ Top.pc = "stack"
  /\ nodes' = IF IsBottomLevel(Top.level)
                THEN installUdpEchoServers(nodes, Top.leaves, ServerPort, ServerStart, ServerEnd)
                ELSE nodes
  /\ stack' = SetTop([Top EXCEPT !.pc = "loop"])
  /\ UNCHANGED <<numLeaves, depth, branch, links, ipInterfaces, clients, pc, run, prev, calls>>

\* One pass of the body of for (netDev ...): the address of link netDev, its
\* interfaces kept at level 1, and the recursive call on leaf netDev.
AssignAndRecurse ==
  /\ Building
  /\ Top.pc = "loop"
  /\ Top.netDev < Len(Top.netC)
  /\ LET id == Top.netC[Top.netDev + 1]
         subnet == SubnetAddress(Top.level, branch, Top.netDev)
         tempContainer == AssignInterfaces(subnet, links[id])
     IN /\ links' = [links EXCEPT ![id].addr = subnet, ![id].branch = branch]
        /\ ipInterfaces' = AddInterfaces(Top.level, ipInterfaces, tempContainer)
        /\ stack' = Append(SetTop([Top EXCEPT !.pc = "incr"]),
                           Frame(RecurseLeaf(Top.leaves, Top.netDev), NextLevel(Top.level)))
        /\ calls' = calls + 1
  /\ UNCHANGED <<numLeaves, depth, branch, nodes, clients, pc, run, prev>>

\* netDev++ after the recursive call has returned
LoopIncrAndBranch ==
  /\ Building
  /\ Top.pc = "incr"
  /\ stack' = SetTop([Top EXCEPT !.netDev = @ + 1, !.pc = "loop"])
  /\ branch' = branch + 1
  /\ UNCHANGED <<numLeaves, depth, nodes, links, ipInterfaces, clients, pc, run, prev, calls>>
LoopIncr ==
  /\ Building
  /\ Top.pc = "incr"
  /\ stack' = SetTop([Top EXCEPT !.netDev = @ + 1, !.pc = "loop"])
  /\ UNCHANGED <<numLeaves, depth, branch, nodes, links, ipInterfaces, clients, pc, run, prev, calls>>

\* the loop is over: branch++ and return
LoopExit ==
  /\ Building
  /\ Top.pc = "loop"
  /\ ~(Top.netDev < Len(Top.netC))
  /\ branch' = NextBranch(branch)
  /\ stack' = Pop
  /\ UNCHANGED <<numLeaves, depth, nodes, links, ipInterfaces, clients, pc, run, prev, calls>>

\* ---------------------------------------------------- installUdpEchoClient
\* for (int ip = 1; ip < ipInterfaces->GetN(); ip+=2): the k-th position visited
PositionFromZero(k) == 2 * k - 2
Position(k) == 2 * k - 1

\* number of passes of that loop over a list of n entries
Passes(n) == n \div 2

\* Seconds (start + (ip - 1.0)/(2*delay)), in microseconds
StartTimeIntDiv(start, ip) == start + ((ip - 1) \div (2 * Delay)) * MicrosPerSecond
StartTimeWholeDelay(start, ip) == start + ((ip - 1) * MicrosPerSecond) \div Delay
StartTimeNoBase(start, ip) == ((ip - 1) * MicrosPerSecond) \div (2 * Delay)
StartTime(start, ip) == start + ((ip - 1) * MicrosPerSecond) \div (2 * Delay)

installUdpEchoClient(port, list, start, end) ==
  [k \in 1..Passes(Len(list)) |->
     [remote |-> list[Position(k) + 1],       \* GetAddress(ip), ip counted from 0
      port |-> port,
      maxPackets |-> MaxPackets,
      packetSize |-> PacketSize,
      ip |-> Position(k),
      start |-> StartTime(start, Position(k)),
      stop |-> end]]

\* main: installUdpEchoClient(client, 9, &ipInterfaces, 2.0, 2000.0) once networkTree
\* has returned
CallInstallUdpEchoClient ==
  /\ pc = "build"
  /\ stack = <<>>
  /\ clients' = installUdpEchoClient(ClientPort, ipInterfaces, ClientStart, ClientEnd)
  /\ pc' = "done"
  /\ UNCHANGED <<numLeaves, depth, branch, stack, nodes, links, ipInterfaces, run, prev, calls>>

\* ------------------------------------------------------- a second execution
Output ==
  [links |-> [i \in 1..Len(links) |-> links[i].addr],
   starts |-> [k \in 1..Len(clients) |-> clients[k].start],
   pc |-> pc]

\* The program is executed again with the same arguments: every object is new
\* and the static counter is initialised again.
RestartKeepBranch ==
  /\ pc \in {"done", "aborted"}
  /\ run = 1
  /\ run' = 2
  /\ prev' = Output
  /\ stack' = <<>>
  /\ nodes' = <<>>
  /\ links' = <<>>
  /\ ipInterfaces' = <<>>
  /\ clients' = <<>>
  /\ pc' = "main"
  /\ calls' = 0
  /\ UNCHANGED <<numLeaves, depth, branch>>
Restart ==
  /\ pc \in {"done", "aborted"}
  /\ run = 1
  /\ run' = 2
  /\ prev' = Output
  /\ branch' = InitialBranch
  /\ stack' = <<>>
  /\ nodes' = <<>>
  /\ links' = <<>>
  /\ ipInterfaces' = <<>>
  /\ clients' = <<>>
  /\ pc' = "main"
  /\ calls' = 0
  /\ UNCHANGED <<numLeaves, depth>>

Next ==
  \/ CallNetworkTree
  \/ ReturnBase
  \/ CreateLeaves
  \/ ConnectLeaves
  \/ InstallStack
  \/ AssignAndRecurse
  \/ LoopIncr
  \/ LoopExit
  \/ CallInstallUdpEchoClient
  \/ Restart

Spec == Init /\ [][Next]_vars
\* ------------------------------------------------------ derived quantities
\* distance of a node from the client node
RECURSIVE DepthOf(_)
DepthOf(i) == IF i = 0 THEN 0 ELSE 1 + DepthOf(nodes[i].parent)

NodeIds == 1..Len(nodes)
LinkIds == 1..Len(links)
DeepestNodes == {i \in NodeIds : DepthOf(i) = depth}
AssignedLinks == {i \in LinkIds : links[i].addr # <<>>}
\* ids of the links that end at a deepest-level node, in creation order
DeepestLinkSeq == SelectSeq([i \in LinkIds |-> i], LAMBDA i : DepthOf(links[i].child) = depth)
BuildOver == pc = "done"

\* every field written into an address by this (numLeaves, level) fits its field
WithinFieldRanges ==
  /\ numLeaves <= FieldMax
  /\ BaseOffset + depth <= FieldMax
  /\ GeoSum(numLeaves, 0, depth - 1) <= FieldMax

\* ------------------------------------------------------------------ claims

\* C1: for b >= 1 and d >= 1 within the field ranges, the addresses bound to
\* links are (9+level, branch, linkIndex+1) and never equal for two links, and
\* the finished build has exactly b + b^2 + ... + b^d links, each with one.
C1_UniqueSubnets ==
  (numLeaves >= 1 /\ depth >= 1 /\ WithinFieldRanges) =>
    /\ \A i \in AssignedLinks :
         links[i].addr = <<BaseOffset + links[i].level, links[i].branch, links[i].index + 1>>
    /\ \A i, j \in AssignedLinks : i # j => links[i].addr # links[j].addr
    /\ BuildOver => /\ Len(links) = GeoSum(numLeaves, 1, depth)
                    /\ AssignedLinks = LinkIds

C1_Witness ==
  /\ BuildOver /\ numLeaves >= 2 /\ depth >= 3
  /\ Len(links) = GeoSum(numLeaves, 1, depth)
  /\ \E i, j \in AssignedLinks : i # j /\ links[i].level = links[j].level
                                 /\ links[i].index = links[j].index

C4_StaggerIncreasing ==
  /\ \A k \in 1..Len(clients) :
       /\ clients[k].ip = 2 * k - 1
       /\ clients[k].start = ClientStart + ((clients[k].ip - 1) * MicrosPerSecond) \div (2 * Delay)
  /\ \A k, m \in 1..Len(clients) :
       clients[k].ip < clients[m].ip => clients[k].start < clients[m].start

C4_Witness ==
  /\ BuildOver /\ Len(clients) >= 3
  /\ clients[1].start < clients[2].start

\* C5: an invocation with level 0 returns at once and leaves the nodes, the
\* links, their addresses, the servers, the address list and the branch counter
\* as they were, whatever numLeaves is.
C5_DepthZeroNoEffect ==
  [][(Building /\ Top.pc = "entry" /\ Top.level = 0) =>
       /\ stack' = Pop
       /\ nodes' = nodes
       /\ links' = links
       /\ ipInterfaces' = ipInterfaces
       /\ clients' = clients
       /\ branch' = branch]_vars

C5_Witness ==
  /\ depth = 0 /\ numLeaves = MaxB
  /\ pc = "build" /\ stack = <<>>
  /\ nodes = <<>> /\ links = <<>> /\ ipInterfaces = <<>> /\ branch = InitialBranch

\* C6: with numLeaves = 0 no node and no link is ever created, no recursive call
\* is made and the address list stays empty, for every depth.
C6_BranchingZeroEmpty ==
  (numLeaves = 0) =>
    /\ nodes = <<>>
    /\ links = <<>>
    /\ ipInterfaces = <<>>
    /\ Len(stack) <= 1

C6_Witness ==
  /\ numLeaves = 0 /\ depth = MaxD
  /\ BuildOver
  /\ nodes = <<>> /\ branch = InitialBranch + 1

\* C7: depth 2, branching 2: two first-level children, four deepest-level nodes,
\* eight list entries, four requests; first field 10 at level 1 and 11 at level
\* 2; the subtrees of the first and second child use branch 1 and branch 2.
C7_WorkedExample ==
  (BuildOver /\ numLeaves = 2 /\ depth = 2) =>
    /\ Cardinality({i \in NodeIds : DepthOf(i) = 1}) = 2
    /\ Cardinality(DeepestNodes) = 4
    /\ Len(ipInterfaces) = 8
    /\ Len(clients) = 4
    /\ \A i \in LinkIds : /\ links[i].level = 1 => links[i].addr[1] = 10
                          /\ links[i].level = 2 => links[i].addr[1] = 11
    /\ \A i \in LinkIds : links[i].level = 1 =>
         links[i].addr[2] = (IF links[i].parent = 1 THEN 1 ELSE 2)
    /\ [i \in LinkIds |-> links[i].addr] =
         << <<11, 1, 1>>, <<11, 2, 2>>,
            <<10, 1, 1>>, <<10, 1, 2>>, <<10, 2, 1>>, <<10, 2, 2>> >>

C7_Witness ==
  /\ BuildOver /\ numLeaves = 2 /\ depth = 2
  /\ Len(ipInterfaces) = 8 /\ Len(links) = 6

\* C8: a build with a negative depth or a negative branching factor is refused
\* before any node or link exists.
C8_InvalidRejectedFirst ==
  (numLeaves < 0 \/ depth < 0) => (nodes = <<>> /\ links = <<>>)

\* C9: no link is ever bound to an address with a field above 255, and no build
\* ends with two links sharing an address.
C9_NoFieldOverflow ==
  /\ \A i \in AssignedLinks : \A f \in 1..3 : links[i].addr[f] <= FieldMax
  /\ BuildOver => \A i, j \in AssignedLinks : i # j => links[i].addr # links[j].addr

\* C10: the address list always has even length; after the build it has two
\* entries per deepest-level link, entry 2k the parent side and entry 2k+1 the
\* child side of the k-th such link in creation order.
C10_PairedList ==
  /\ Len(ipInterfaces) % 2 = 0
  /\ BuildOver =>
       /\ Len(ipInterfaces) = 2 * Len(DeepestLinkSeq)
       /\ \A k \in 1..Len(DeepestLinkSeq) :
            LET l == links[DeepestLinkSeq[k]]
            IN /\ ipInterfaces[2 * k - 1] = [subnet |-> l.addr, node |-> l.parent, side |-> "parent"]
               /\ ipInterfaces[2 * k] = [subnet |-> l.addr, node |-> l.child, side |-> "child"]

C10_Witness ==
  /\ BuildOver /\ numLeaves = 2 /\ depth = 3
  /\ Len(ipInterfaces) = 16
  /\ ipInterfaces[16].side = "child"

\* the links one of whose two interfaces is the list entry e
LinksOfEntry(e) ==
  {i \in LinkIds : /\ links[i].addr = e.subnet
                   /\ \/ e.side = "parent" /\ e.node = links[i].parent
                      \/ e.side = "child" /\ e.node = links[i].child}

C12_SpacingHalfUnit ==
  \A k \in 1..(Len(clients) - 1) :
    clients[k + 1].start - clients[k].start = MicrosPerSecond \div (2 * Delay)

\* C12 amended: the selected positions are two apart, so the start times of two
\* consecutive selected targets differ by 2/(2*delay) = 1/delay seconds, 100
\* microseconds.
C12_SpacingOneUnit ==
  \A k \in 1..(Len(clients) - 1) :
    /\ clients[k + 1].ip = clients[k].ip + 2
    /\ clients[k + 1].start - clients[k].start = MicrosPerSecond \div Delay
    /\ clients[k + 1].start - clients[k].start = 100

C12_Witness ==
  /\ BuildOver /\ Len(clients) >= 4
  /\ clients[4].start - clients[3].start = 100

\* C13: after a build with b >= 1 and d >= 1 a node carries an echo server
\* exactly when it is a deepest-level node, a child created by an invocation
\* with level == 1, and then it carries exactly one; no node above carries one.
C13_ServersAtBottomOnly ==
  (numLeaves >= 1 /\ depth >= 1) =>
    /\ \A i \in NodeIds :
         /\ Len(nodes[i].servers) <= 1
         /\ Len(nodes[i].servers) = 1 => (nodes[i].level = 1 /\ DepthOf(i) = depth)
    /\ BuildOver =>
         \A i \in NodeIds :
           /\ (nodes[i].level = 1) <=> (DepthOf(i) = depth)
           /\ (DepthOf(i) = depth) => Len(nodes[i].servers) = 1

C13_Witness ==
  /\ BuildOver /\ numLeaves = 2 /\ depth = 3
  /\ \E i \in NodeIds : DepthOf(i) = 3 /\ Len(nodes[i].servers) = 1
  /\ \E i \in NodeIds : DepthOf(i) = 2 /\ Len(nodes[i].servers) = 0

\* C14: within one execution the branch counter never decreases; it changes only
\* when an invocation with level > 0 returns, by exactly one, after every child
\* of that invocation has had its address and its whole subtree; an invocation
\* with level 0 returns without changing it.
C14_BranchDiscipline ==
  [][(run' = run) =>
       /\ branch' >= branch
       /\ (branch' # branch) =>
            /\ Building /\ Top.level > 0 /\ Top.pc = "loop"
            /\ Top.netDev = numLeaves
            /\ \A k \in 1..Len(Top.netC) : links[Top.netC[k]].addr # <<>>
            /\ stack' = Pop
            /\ branch' = branch + 1
       /\ (Building /\ Len(stack') < Len(stack)) =>
            branch' = (IF Top.level > 0 THEN branch + 1 ELSE branch)]_vars

C14_Witness ==
  /\ numLeaves = 3 /\ depth = 2
  /\ Building /\ Len(stack) = 1 /\ Top.pc = "incr" /\ Top.netDev = 1
  /\ branch = InitialBranch + 2

\* node c is above node n in the tree
RECURSIVE IsAncestor(_, _)
IsAncestor(c, n) == n # 0 /\ (nodes[n].parent = c \/ IsAncestor(c, nodes[n].parent))

Descendants(c) == {n \in NodeIds : IsAncestor(c, n)}

\* the subtree under node c, the child of an invocation with this level, is
\* whole: all its nodes exist and all its links have their address
SubtreeBuilt(c, level) ==
  /\ Cardinality(Descendants(c)) = GeoSum(numLeaves, 1, level - 1)
  /\ \A i \in LinkIds : (links[i].parent = c \/ IsAncestor(c, links[i].parent)) =>
       links[i].addr # <<>>

\* C15: in an invocation with level > 0 the addresses are assigned in index
\* order 0..numLeaves-1; when child i gets its address (at level 1 its server
\* is already installed and its two addresses are appended in that step) no node
\* below child i exists yet, and the subtree of child i-1 is whole; nodes are
\* created only under a child whose link already has its address.
C15_PreOrder ==
  [][/\ (Building /\ Top.pc = "loop" /\ Top.netDev < Len(Top.netC)) =>
          /\ \A k \in 1..Len(Top.netC) :
               (links[Top.netC[k]].addr # <<>>) <=> (k <= Top.netDev)
          /\ links'[Top.netC[Top.netDev + 1]].addr # <<>>
          /\ links[Top.netC[Top.netDev + 1]].child = Top.leaves[Top.netDev + 1]
          /\ links[Top.netC[Top.netDev + 1]].index = Top.netDev
          /\ Descendants(Top.leaves[Top.netDev + 1]) = {}
          /\ Top.netDev > 0 => SubtreeBuilt(Top.leaves[Top.netDev], Top.level)
          /\ Top.level = 1 =>
               /\ Len(nodes[Top.leaves[Top.netDev + 1]].servers) = 1
               /\ Len(ipInterfaces') = Len(ipInterfaces) + 2
               /\ ipInterfaces'[Len(ipInterfaces')].node = Top.leaves[Top.netDev + 1]
     /\ (Len(nodes') > Len(nodes) /\ Top.parent # 0) =>
          \E i \in LinkIds : links[i].child = Top.parent /\ links[i].addr # <<>>]_vars

C15_Witness ==
  /\ numLeaves = 2 /\ depth = 3
  /\ Building /\ Len(stack) = 1 /\ Top.pc = "incr" /\ Top.netDev = 0
  /\ links[Top.netC[1]].addr # <<>> /\ links[Top.netC[2]].addr = <<>>
  /\ Cardinality(Descendants(Top.leaves[1])) = 6
  /\ Descendants(Top.leaves[2]) = {}

\* C16: a complete build ends with the branch counter at 1 plus the number of
\* invocations that had level > 0: 1 + (1 + b + ... + b^(d-1)) for b >= 1 and
\* d >= 1, 2 for b = 0 and d >= 1, and 1 for d = 0.
C16_FinalBranch ==
  BuildOver =>
    /\ (numLeaves >= 1 /\ depth >= 1) =>
         branch = InitialBranch + GeoSum(numLeaves, 0, depth - 1)
    /\ (numLeaves = 0 /\ depth >= 1) => branch = 2
    /\ (depth = 0) => branch = 1

C16_Witness ==
  /\ BuildOver /\ numLeaves = 3 /\ depth = 3
  /\ branch = 14

\* C17: every request starts at 2.0 s or later, so after the start (1.0 s) of
\* the server on the node it targets, and every request stops at 2000.0 s, the
\* stop time of the servers, whatever its start time.
C17_RequestAfterResponder ==
  \A k \in 1..Len(clients) :
    /\ clients[k].start >= 2 * MicrosPerSecond
    /\ clients[k].stop = 2000 * MicrosPerSecond
    /\ clients[k].remote.node \in NodeIds
    /\ Len(nodes[clients[k].remote.node].servers) = 1
    /\ \A j \in 1..Len(nodes[clients[k].remote.node].servers) :
         LET srv == nodes[clients[k].remote.node].servers[j]
         IN /\ srv.start = 1 * MicrosPerSecond
            /\ srv.start < clients[k].start
            /\ srv.stop = clients[k].stop
            /\ srv.port = clients[k].port

C17_Witness ==
  /\ BuildOver /\ numLeaves = 3 /\ depth = 2
  /\ Len(clients) = 9
  /\ clients[9].start > clients[1].start
  /\ clients[9].stop = clients[1].stop
  /\ Len(nodes[clients[9].remote.node].servers) = 1

\* The program is sequential: whenever it has a next step it takes it.
FairSpec == Spec /\ WF_vars(Next)

\* C18: for numLeaves >= 0 and level >= 0 the build terminates; every active
\* invocation has a level >= 0, one less than its caller's; and the finished
\* build has entered exactly 1 + b + ... + b^d invocations.
C18_Terminates ==
  /\ []((numLeaves >= 0 /\ depth >= 0) =>
          /\ \A p \in 1..Len(stack) : stack[p].level >= 0
          /\ \A p \in 1..(Len(stack) - 1) : stack[p + 1].level = stack[p].level - 1
          /\ Len(stack) <= depth + 1
          /\ calls <= GeoSum(numLeaves, 0, depth)
          /\ BuildOver => calls = GeoSum(numLeaves, 0, depth))
  /\ ((numLeaves >= 0 /\ depth >= 0 /\ pc = "main") ~> (BuildOver /\ stack = <<>>))

C18_Witness ==
  /\ BuildOver /\ stack = <<>> /\ numLeaves = 3 /\ depth = 3
  /\ calls = 40
====
